---- MODULE Spec2Model ----
(***************************************************************************)
(* Model of the Fix Imports transformation (doctor/fiximports.go) and of    *)
(* the storage backends (doctor/filesystem.go).                            *)
(*                                                                         *)
(* Go strings are modelled as sequences of byte values, so that quoting,   *)
(* strings.Split, string concatenation and sort.Strings are computed as    *)
(* the code computes them.  A Go map is a TLA+ function; its iteration     *)
(* order is a nondeterministic choice.                                     *)
(***************************************************************************)
EXTENDS Integers, Sequences, FiniteSets, TLC

VARIABLES file, log, editSet, pc, imports, idx, resolved,
          backend, disk, files, Edits, call

runVars == <<file, log, editSet, pc, imports, idx, resolved>>
fsVars == <<backend, disk, files, Edits, call>>
vars == <<file, log, editSet, pc, imports, idx, resolved,
          backend, disk, files, Edits, call>>

(* ------------------------------ bounds --------------------------------- *)

MaxImports == 2
MaxUnresolved == 2
MaxChanges == 4

(* ------------------------ bytes and string literals -------------------- *)

Quote == 34
Slash == 47
Space == 32
Tab == 9
Newline == 10
FileBase == 1
NoPos == 0

EmptyString == <<>>

\* "import (\n"
strImportOpen == <<105, 109, 112, 111, 114, 116, 32, 40, 10>>
\* ")\n"
strImportClose == <<41, 10>>
\* "Unable to resolve "
strUnableToResolve == <<85, 110, 97, 98, 108, 101, 32, 116, 111, 32, 114, 101, 115, 111, 108, 118, 101, 32>>
\* "There are multiple packages named "
strMultiplePackages == <<84, 104, 101, 114, 101, 32, 97, 114, 101, 32, 109, 117, 108, 116, 105, 112, 108, 101, 32, 112, 97, 99, 107, 97, 103, 101, 115, 32, 110, 97, 109, 101, 100, 32>>
\* ":\n"
strColonNewline == <<58, 10>>
\* "    "
strIndent == <<32, 32, 32, 32>>
\* "file cannot be null"
strFileCannotBeNull == <<102, 105, 108, 101, 32, 99, 97, 110, 110, 111, 116, 32, 98, 101, 32, 110, 117, 108, 108>>

goLibraryPackages ==
  <<
     <<97, 114, 99, 104, 105, 118, 101>>,  \* archive
     <<97, 114, 99, 104, 105, 118, 101, 47, 116, 97, 114>>,  \* archive/tar
     <<97, 114, 99, 104, 105, 118, 101, 47, 122, 105, 112>>,  \* archive/zip
     <<98, 117, 102, 105, 111>>,  \* bufio
     <<98, 117, 105, 108, 116, 105, 110>>,  \* builtin
     <<98, 121, 116, 101, 115>>,  \* bytes
     <<99, 111, 109, 112, 114, 101, 115, 115>>,  \* compress
     <<99, 111, 109, 112, 114, 101, 115, 115, 47, 98, 122, 105, 112, 50>>,  \* compress/bzip2
     <<99, 111, 109, 112, 114, 101, 115, 115, 47, 102, 108, 97, 116, 101>>,  \* compress/flate
     <<99, 111, 109, 112, 114, 101, 115, 115, 47, 103, 122, 105, 112>>,  \* compress/gzip
     <<99, 111, 109, 112, 114, 101, 115, 115, 47, 108, 122, 119>>,  \* compress/lzw
     <<99, 111, 109, 112, 114, 101, 115, 115, 47, 122, 108, 105, 98>>,  \* compress/zlib
     <<99, 111, 110, 116, 97, 105, 110, 101, 114>>,  \* container
     <<99, 111, 110, 116, 97, 105, 110, 101, 114, 47, 104, 101, 97, 112>>,  \* container/heap
     <<99, 111, 110, 116, 97, 105, 110, 101, 114, 47, 108, 105, 115, 116>>,  \* container/list
     <<99, 111, 110, 116, 97, 105, 110, 101, 114, 47, 114, 105, 110, 103>>,  \* container/ring
     <<99, 114, 121, 112, 116, 111>>,  \* crypto
     <<99, 114, 121, 112, 116, 111, 47, 97, 101, 115>>,  \* crypto/aes
     <<99, 114, 121, 112, 116, 111, 47, 99, 105, 112, 104, 101, 114>>,  \* crypto/cipher
     <<99, 114, 121, 112, 116, 111, 47, 100, 101, 115>>,  \* crypto/des
     <<99, 114, 121, 112, 116, 111, 47, 100, 115, 97>>,  \* crypto/dsa
     <<99, 114, 121, 112, 116, 111, 47, 101, 99, 100, 115, 97>>,  \* crypto/ecdsa
     <<99, 114, 121, 112, 116, 111, 47, 101, 108, 108, 105, 112, 116, 105, 99>>,  \* crypto/elliptic
     <<99, 114, 121, 112, 116, 111, 47, 104, 109, 97, 99>>,  \* crypto/hmac
     <<99, 114, 121, 112, 116, 111, 47, 109, 100, 53>>,  \* crypto/md5
     <<99, 114, 121, 112, 116, 111, 47, 114, 97, 110, 100>>,  \* crypto/rand
     <<99, 114, 121, 112, 116, 111, 47, 114, 99, 52>>,  \* crypto/rc4
     <<99, 114, 121, 112, 116, 111, 47, 114, 115, 97>>,  \* crypto/rsa
     <<99, 114, 121, 112, 116, 111, 47, 115, 104, 97, 49>>,  \* crypto/sha1
     <<99, 114, 121, 112, 116, 111, 47, 115, 104, 97, 50, 53, 54>>,  \* crypto/sha256
     <<99, 114, 121, 112, 116, 111, 47, 115, 104, 97, 53, 49, 50>>,  \* crypto/sha512
     <<99, 114, 121, 112, 116, 111, 47, 115, 117, 98, 116, 108, 101>>,  \* crypto/subtle
     <<99, 114, 121, 112, 116, 111, 47, 116, 108, 115>>,  \* crypto/tls
     <<99, 114, 121, 112, 116, 111, 47, 120, 53, 48, 57>>,  \* crypto/x509
     <<99, 114, 121, 112, 116, 111, 47, 120, 53, 48, 57, 47, 112, 107, 105, 120>>,  \* crypto/x509/pkix
     <<100, 97, 116, 97, 98, 97, 115, 101>>,  \* database
     <<100, 97, 116, 97, 98, 97, 115, 101, 47, 115, 113, 108>>,  \* database/sql
     <<100, 97, 116, 97, 98, 97, 115, 101, 47, 115, 113, 108, 47, 100, 114, 105, 118, 101, 114>>,  \* database/sql/driver
     <<100, 101, 98, 117, 103>>,  \* debug
     <<100, 101, 98, 117, 103, 47, 100, 119, 97, 114, 102>>,  \* debug/dwarf
     <<100, 101, 98, 117, 103, 47, 101, 108, 102>>,  \* debug/elf
     <<100, 101, 98, 117, 103, 47, 103, 111, 115, 121, 109>>,  \* debug/gosym
     <<100, 101, 98, 117, 103, 47, 109, 97, 99, 104, 111>>,  \* debug/macho
     <<100, 101, 98, 117, 103, 47, 112, 101>>,  \* debug/pe
     <<101, 110, 99, 111, 100, 105, 110, 103>>,  \* encoding
     <<101, 110, 99, 111, 100, 105, 110, 103, 47, 97, 115, 99, 105, 105, 56, 53>>,  \* encoding/ascii85
     <<101, 110, 99, 111, 100, 105, 110, 103, 47, 97, 115, 110, 49>>,  \* encoding/asn1
     <<101, 110, 99, 111, 100, 105, 110, 103, 47, 98, 97, 115, 101, 51, 50>>,  \* encoding/base32
     <<101, 110, 99, 111, 100, 105, 110, 103, 47, 98, 97, 115, 101, 54, 52>>,  \* encoding/base64
     <<101, 110, 99, 111, 100, 105, 110, 103, 47, 98, 105, 110, 97, 114, 121>>,  \* encoding/binary
     <<101, 110, 99, 111, 100, 105, 110, 103, 47, 99, 115, 118>>,  \* encoding/csv
     <<101, 110, 99, 111, 100, 105, 110, 103, 47, 103, 111, 98>>,  \* encoding/gob
     <<101, 110, 99, 111, 100, 105, 110, 103, 47, 104, 101, 120>>,  \* encoding/hex
     <<101, 110, 99, 111, 100, 105, 110, 103, 47, 106, 115, 111, 110>>,  \* encoding/json
     <<101, 110, 99, 111, 100, 105, 110, 103, 47, 112, 101, 109>>,  \* encoding/pem
     <<101, 110, 99, 111, 100, 105, 110, 103, 47, 120, 109, 108>>,  \* encoding/xml
     <<101, 114, 114, 111, 114, 115>>,  \* errors
     <<101, 120, 112, 118, 97, 114>>,  \* expvar
     <<102, 108, 97, 103>>,  \* flag
     <<102, 109, 116>>,  \* fmt
     <<103, 111>>,  \* go
     <<103, 111, 47, 97, 115, 116>>,  \* go/ast
     <<103, 111, 47, 98, 117, 105, 108, 100>>,  \* go/build
     <<103, 111, 47, 100, 111, 99>>,  \* go/doc
     <<103, 111, 47, 102, 111, 114, 109, 97, 116>>,  \* go/format
     <<103, 111, 47, 112, 97, 114, 115, 101, 114>>,  \* go/parser
     <<103, 111, 47, 112, 114, 105, 110, 116, 101, 114>>,  \* go/printer
     <<103, 111, 47, 115, 99, 97, 110, 110, 101, 114>>,  \* go/scanner
     <<103, 111, 47, 116, 111, 107, 101, 110>>,  \* go/token
     <<104, 97, 115, 104>>,  \* hash
     <<104, 97, 115, 104, 47, 97, 100, 108, 101, 114, 51, 50>>,  \* hash/adler32
     <<104, 97, 115, 104, 47, 99, 114, 99, 51, 50>>,  \* hash/crc32
     <<104, 97, 115, 104, 47, 99, 114, 99, 54, 52>>,  \* hash/crc64
     <<104, 97, 115, 104, 47, 102, 110, 118>>,  \* hash/fnv
     <<104, 116, 109, 108>>,  \* html
     <<104, 116, 109, 108, 47, 116, 101, 109, 112, 108, 97, 116, 101>>,  \* html/template
     <<105, 109, 97, 103, 101>>,  \* image
     <<105, 109, 97, 103, 101, 47, 99, 111, 108, 111, 114>>,  \* image/color
     <<105, 109, 97, 103, 101, 47, 99, 111, 108, 111, 114, 47, 112, 97, 108, 101, 116, 116, 101>>,  \* image/color/palette
     <<105, 109, 97, 103, 101, 47, 100, 114, 97, 119>>,  \* image/draw
     <<105, 109, 97, 103, 101, 47, 103, 105, 102>>,  \* image/gif
     <<105, 109, 97, 103, 101, 47, 106, 112, 101, 103>>,  \* image/jpeg
     <<105, 109, 97, 103, 101, 47, 112, 110, 103>>,  \* image/png
     <<105, 110, 100, 101, 120>>,  \* index
     <<105, 110, 100, 101, 120, 47, 115, 117, 102, 102, 105, 120, 97, 114, 114, 97, 121>>,  \* index/suffixarray
     <<105, 111>>,  \* io
     <<105, 111, 47, 105, 111, 117, 116, 105, 108>>,  \* io/ioutil
     <<108, 111, 103>>,  \* log
     <<108, 111, 103, 47, 115, 121, 115, 108, 111, 103>>,  \* log/syslog
     <<109, 97, 116, 104>>,  \* math
     <<109, 97, 116, 104, 47, 98, 105, 103>>,  \* math/big
     <<109, 97, 116, 104, 47, 99, 109, 112, 108, 120>>,  \* math/cmplx
     <<109, 97, 116, 104, 47, 114, 97, 110, 100>>,  \* math/rand
     <<109, 105, 109, 101>>,  \* mime
     <<109, 105, 109, 101, 47, 109, 117, 108, 116, 105, 112, 97, 114, 116>>,  \* mime/multipart
     <<110, 101, 116>>,  \* net
     <<110, 101, 116, 47, 104, 116, 116, 112>>,  \* net/http
     <<110, 101, 116, 47, 104, 116, 116, 112, 47, 99, 103, 105>>,  \* net/http/cgi
     <<110, 101, 116, 47, 104, 116, 116, 112, 47, 99, 111, 111, 107, 105, 101, 106, 97, 114>>,  \* net/http/cookiejar
     <<110, 101, 116, 47, 104, 116, 116, 112, 47, 102, 99, 103, 105>>,  \* net/http/fcgi
     <<110, 101, 116, 47, 104, 116, 116, 112, 47, 104, 116, 116, 112, 116, 101, 115, 116>>,  \* net/http/httptest
     <<110, 101, 116, 47, 104, 116, 116, 112, 47, 104, 116, 116, 112, 117, 116, 105, 108>>,  \* net/http/httputil
     <<110, 101, 116, 47, 104, 116, 116, 112, 47, 112, 112, 114, 111, 102>>,  \* net/http/pprof
     <<110, 101, 116, 47, 109, 97, 105, 108>>,  \* net/mail
     <<110, 101, 116, 47, 114, 112, 99>>,  \* net/rpc
     <<110, 101, 116, 47, 114, 112, 99, 47, 106, 115, 111, 110, 114, 112, 99>>,  \* net/rpc/jsonrpc
     <<110, 101, 116, 47, 115, 109, 116, 112>>,  \* net/smtp
     <<110, 101, 116, 47, 116, 101, 120, 116, 112, 114, 111, 116, 111>>,  \* net/textproto
     <<110, 101, 116, 47, 117, 114, 108>>,  \* net/url
     <<111, 115>>,  \* os
     <<111, 115, 47, 101, 120, 101, 99>>,  \* os/exec
     <<111, 115, 47, 115, 105, 103, 110, 97, 108>>,  \* os/signal
     <<111, 115, 47, 117, 115, 101, 114>>,  \* os/user
     <<112, 97, 116, 104>>,  \* path
     <<112, 97, 116, 104, 47, 102, 105, 108, 101, 112, 97, 116, 104>>,  \* path/filepath
     <<114, 101, 102, 108, 101, 99, 116>>,  \* reflect
     <<114, 101, 103, 101, 120, 112>>,  \* regexp
     <<114, 101, 103, 101, 120, 112, 47, 115, 121, 110, 116, 97, 120>>,  \* regexp/syntax
     <<114, 117, 110, 116, 105, 109, 101>>,  \* runtime
     <<114, 117, 110, 116, 105, 109, 101, 47, 99, 103, 111>>,  \* runtime/cgo
     <<114, 117, 110, 116, 105, 109, 101, 47, 100, 101, 98, 117, 103>>,  \* runtime/debug
     <<114, 117, 110, 116, 105, 109, 101, 47, 112, 112, 114, 111, 102>>,  \* runtime/pprof
     <<114, 117, 110, 116, 105, 109, 101, 47, 114, 97, 99, 101>>,  \* runtime/race
     <<115, 111, 114, 116>>,  \* sort
     <<115, 116, 114, 99, 111, 110, 118>>,  \* strconv
     <<115, 116, 114, 105, 110, 103, 115>>,  \* strings
     <<115, 121, 110, 99>>,  \* sync
     <<115, 121, 110, 99, 47, 97, 116, 111, 109, 105, 99>>,  \* sync/atomic
     <<115, 121, 115, 99, 97, 108, 108>>,  \* syscall
     <<116, 101, 115, 116, 105, 110, 103>>,  \* testing
     <<116, 101, 115, 116, 105, 110, 103, 47, 105, 111, 116, 101, 115, 116>>,  \* testing/iotest
     <<116, 101, 115, 116, 105, 110, 103, 47, 113, 117, 105, 99, 107>>,  \* testing/quick
     <<116, 101, 120, 116>>,  \* text
     <<116, 101, 120, 116, 47, 115, 99, 97, 110, 110, 101, 114>>,  \* text/scanner
     <<116, 101, 120, 116, 47, 116, 97, 98, 119, 114, 105, 116, 101, 114>>,  \* text/tabwriter
     <<116, 101, 120, 116, 47, 116, 101, 109, 112, 108, 97, 116, 101>>,  \* text/template
     <<116, 101, 120, 116, 47, 116, 101, 109, 112, 108, 97, 116, 101, 47, 112, 97, 114, 115, 101>>,  \* text/template/parse
     <<116, 105, 109, 101>>,  \* time
     <<117, 110, 105, 99, 111, 100, 101>>,  \* unicode
     <<117, 110, 105, 99, 111, 100, 101, 47, 117, 116, 102, 49, 54>>,  \* unicode/utf16
     <<117, 110, 105, 99, 111, 100, 101, 47, 117, 116, 102, 56>>,  \* unicode/utf8
     <<117, 110, 115, 97, 102, 101>>  \* unsafe
  >>

(* --------------------------- library functions ------------------------- *)

\* strings.Split(s, sep) for a one-byte separator: the pieces of s between
\* the occurrences of sep
Split(s, sep) ==
  LET at  == {k \in 1..Len(s) : s[k] = sep}
      n   == Cardinality(at)
      \* position of the j-th separator; 0 and Len(s)+1 close the ends
      cut == [j \in 0..(n+1) |->
                IF j = 0 THEN 0
                ELSE IF j = n+1 THEN Len(s) + 1
                ELSE CHOOSE k \in at : Cardinality({i \in at : i < k}) = j - 1]
  IN  [j \in 1..(n+1) |-> SubSeq(s, cut[j-1] + 1, cut[j] - 1)]

\* a < b for Go strings (bytewise lexicographic order)
Less(a, b) ==
  \E k \in 1..(Len(a)+1) :
     /\ k <= Len(b)
     /\ \A j \in 1..(k-1) : a[j] = b[j]
     /\ (k = Len(a)+1 \/ a[k] < b[k])

RECURSIVE Insert(_, _)
Insert(sorted, x) ==
  IF sorted = <<>> THEN <<x>>
  ELSE IF Less(x, Head(sorted)) THEN <<x>> \o sorted
  ELSE <<Head(sorted)>> \o Insert(Tail(sorted), x)

\* sort.Strings
RECURSIVE SortStrings(_)
SortStrings(xs) ==
  IF xs = <<>> THEN <<>> ELSE Insert(SortStrings(Tail(xs)), Head(xs))

\* m[k] = v on a Go map
MapPut(m, k, v) == [x \in (DOMAIN m) \cup {k} |-> IF x = k THEN v ELSE m[x]]

EmptyMap == [x \in {} |-> EmptyString]

RECURSIVE Flatten(_)
Flatten(ss) == IF ss = <<>> THEN <<>> ELSE Head(ss) \o Flatten(Tail(ss))

(* ------------------------- the parsed file (input) --------------------- *)

\* identifiers and import paths of the files considered
fmt == <<102, 109, 116>>
os == <<111, 115>>
filepath == <<102, 105, 108, 101, 112, 97, 116, 104>>
rand == <<114, 97, 110, 100>>
\* "frob": the last segment of no catalog entry
frob == <<102, 114, 111, 98>>
\* "f" and "g": import aliases
f == <<102>>
g == <<103>>
\* the import paths as ast.BasicLit values, i.e. with their quotes
qFmt == <<34, 102, 109, 116, 34>>
qOs == <<34, 111, 115, 34>>
qFilepath == <<34, 112, 97, 116, 104, 47, 102, 105, 108, 101, 112, 97, 116, 104, 34>>

\* source text of the files considered
\* "package p\n"
srcPackageClause == <<112, 97, 99, 107, 97, 103, 101, 32, 112, 10>>
\* "import "
srcImport == <<105, 109, 112, 111, 114, 116, 32>>
\* "var x int"
srcVarDecl == <<118, 97, 114, 32, 120, 32, 105, 110, 116>>

\* ast.ImportSpec: Path is Path.Value, Named is (Name != nil), Name is Name.Name
ImportSpecs ==
  { [Path |-> qFmt,      Named |-> FALSE, Name |-> EmptyString],
    [Path |-> qOs,       Named |-> FALSE, Name |-> EmptyString],
    [Path |-> qFilepath, Named |-> TRUE,  Name |-> f],
    [Path |-> qOs,       Named |-> TRUE,  Name |-> g] }

\* the package name an import declares: its alias, or else the name of the
\* package, which for these paths is the last segment
DeclaredName(spec) ==
  IF spec.Named THEN spec.Name
  ELSE IF spec.Path = qFmt THEN fmt
  ELSE IF spec.Path = qOs THEN os
  ELSE filepath

\* names of identifiers the parser leaves in ast.File.Unresolved
UnresolvedNames == {filepath, rand, frob}

SeqsUpTo(S, n) == UNION {[1..k -> S] : k \in 0..n}

\* the import declarations of a file declare distinct package names
DistinctNames(specs) ==
  \A a, b \in 1..Len(specs) : a # b => DeclaredName(specs[a]) # DeclaredName(specs[b])

Range(s) == {s[k] : k \in DOMAIN s}

\* the file is nil until a selection binds one
NilFile == [Nil |-> TRUE]

SpecText(spec) ==
  IF spec.Named THEN spec.Name \o <<Space>> \o spec.Path ELSE spec.Path

\* text of one import declaration: "import <spec>"
ImportDeclText(spec) == srcImport \o SpecText(spec)

RECURSIVE PlaceDecls(_, _)
\* token positions of the declarations, laid out one per line from offset
PlaceDecls(ds, offset) ==
  IF ds = <<>> THEN <<>>
  ELSE LET d == Head(ds)
       IN  <<[Tok |-> d.Tok, Specs |-> d.Specs,
              Pos |-> FileBase + offset,
              End |-> FileBase + offset + Len(d.Text)]>>
             \o PlaceDecls(Tail(ds), offset + Len(d.Text) + 1)

\* the ast.File (with the facts of types.Info and token.FileSet about it) of
\*   package p
\*   <import declarations, one per import>
\*   <a variable declaration, if hasVarDecl>
\* where the last declaration is followed by a newline iff trailing.
\* refs: the package names some identifier is bound to (types.PkgName);
\* a package name that is not an alias is only used as pkg.Member.
\* sels: the unresolved identifiers that are the X of a selector expression.
MkFile(specs, hasVarDecl, trailing, refs, unres, sels) ==
  LET texts  == [k \in 1..Len(specs) |->
                   [Tok |-> "IMPORT", Specs |-> <<specs[k]>>, Text |-> ImportDeclText(specs[k])]]
                \o (IF hasVarDecl
                    THEN <<[Tok |-> "VAR", Specs |-> <<>>, Text |-> srcVarDecl]>>
                    ELSE <<>>)
      decls  == PlaceDecls(texts, Len(srcPackageClause))
      last   == IF decls = <<>> THEN Len(srcPackageClause)
                ELSE decls[Len(decls)].End - FileBase
  IN  [ Imports    |-> specs,
        Decls      |-> decls,
        Unresolved |-> unres,
        Idents     |-> {[Name |-> n, Obj |-> "PkgName"] : n \in refs}
                       \cup {[Name |-> n, Obj |-> "nil"] : n \in Range(unres)},
        Selectors  |-> sels \cup {DeclaredName(specs[k]) :
                                      k \in {j \in 1..Len(specs) :
                                                ~specs[j].Named /\ DeclaredName(specs[j]) \in refs}},
        Size       |-> IF trailing /\ decls # <<>> THEN last + 1 ELSE last ]

(* ----------------------------- fiximports.go --------------------------- *)

\* Fset.Position(pos).Offset
Offset(pos) == IF pos = NoPos THEN 0 ELSE pos - FileBase

collectReferencedPackages(file_) ==
  [n \in {id.Name : id \in {i \in file_.Idents : i.Obj = "PkgName"}} |-> EmptyString]

RECURSIVE usedImportsLoop(_, _, _)
usedImportsLoop(imps, packagesReferenced, acc) ==
  IF imps = <<>> THEN acc
  ELSE LET imprt == Head(imps)
           path  == imprt.Path
           name  == IF imprt.Named THEN imprt.Name ELSE EmptyString
           foundName == name \in DOMAIN packagesReferenced
           foundPkg  == path \in DOMAIN packagesReferenced
       IN  usedImportsLoop(Tail(imps), packagesReferenced,
                           IF foundName \/ foundPkg THEN MapPut(acc, path, name) ELSE acc)

findUsedImports(file_) ==
  usedImportsLoop(file_.Imports, collectReferencedPackages(file_), EmptyMap)

\* the walk sets result on any selector expression whose X is an identifier;
\* ident is not consulted
isIdentInLHSOfSelectorExpr(file_, ident) == file_.Selectors # {}

LogEntry(severity, message) == [Severity |-> severity, Message |-> message]

\* last, for each pkg of goLibraryPackages (it does not depend on ident)
catalogLast ==
  [k \in 1..Len(goLibraryPackages) |->
     LET pkg == goLibraryPackages[k]
         components == Split(pkg, Slash)
         last == components[Len(components)]
     IN  last]

\* the packages appended to candidates, in catalog order
candidatesFor(ident) ==
  LET matching == SelectSeq([k \in 1..Len(goLibraryPackages) |-> k],
                            LAMBDA k : catalogLast[k] = ident)
  IN  [j \in 1..Len(matching) |-> goLibraryPackages[matching[j]]]

\* resolveSelector taking the first candidate whenever there is one
resolveSelector_FirstCandidate(ident) ==
  LET candidates == candidatesFor(ident)
  IN  IF Len(candidates) >= 1
      THEN [resolved |-> <<Quote>> \o candidates[1] \o <<Quote>>, logged |-> <<>>]
      ELSE [resolved |-> EmptyString,
            logged |-> <<LogEntry("ERROR",
                          strMultiplePackages \o ident \o strColonNewline)>>]

\* resolveSelector returning the catalog entry without the quotes
resolveSelector_Unquoted(ident) ==
  LET candidates == candidatesFor(ident)
  IN  IF Len(candidates) = 1
      THEN [resolved |-> candidates[1], logged |-> <<>>]
      ELSE [resolved |-> EmptyString,
            logged |-> <<LogEntry("ERROR",
                          strMultiplePackages \o ident \o strColonNewline
                            \o Flatten([k \in 1..Len(candidates) |->
                                          strIndent \o candidates[k] \o <<Newline>>]))>>]

\* resolveSelector returning the catalog entry as a raw literal, between
\* backquotes (byte 96)
resolveSelector_Backquoted(ident) ==
  LET candidates == candidatesFor(ident)
  IN  IF Len(candidates) = 1
      THEN [resolved |-> <<96>> \o candidates[1] \o <<96>>, logged |-> <<>>]
      ELSE [resolved |-> EmptyString,
            logged |-> <<LogEntry("ERROR",
                          strMultiplePackages \o ident \o strColonNewline
                            \o Flatten([k \in 1..Len(candidates) |->
                                          strIndent \o candidates[k] \o <<Newline>>]))>>]

resolveSelector(ident) ==
  LET candidates == candidatesFor(ident)
  IN  IF Len(candidates) = 1
      THEN [resolved |-> <<Quote>> \o candidates[1] \o <<Quote>>, logged |-> <<>>]
      ELSE [resolved |-> EmptyString,
            logged |-> <<LogEntry("ERROR",
                          strMultiplePackages \o ident \o strColonNewline
                            \o Flatten([k \in 1..Len(candidates) |->
                                          strIndent \o candidates[k] \o <<Newline>>]))>>]

resolve(file_, ident) ==
  IF isIdentInLHSOfSelectorExpr(file_, ident)
  THEN resolveSelector(ident)
  ELSE [resolved |-> EmptyString,
        logged |-> <<LogEntry("ERROR", strUnableToResolve \o ident)>>]

\* constructNewImportStatement without the call of sort.Strings
constructNewImportStatement_Unsorted(importSet, order) ==
  LET lines == [k \in 1..Len(order) |->
                  LET path == order[k]
                      name == importSet[path]
                  IN  IF name = EmptyString THEN path ELSE name \o <<Space>> \o path]
  IN  strImportOpen
        \o Flatten([k \in 1..Len(lines) |-> <<Tab>> \o lines[k] \o <<Newline>>])
        \o strImportClose

\* order: the order in which the map iteration yields the keys
constructNewImportStatement(importSet, order) ==
  LET lines == [k \in 1..Len(order) |->
                  LET path == order[k]
                      name == importSet[path]
                  IN  IF name = EmptyString THEN path ELSE name \o <<Space>> \o path]
      sorted == SortStrings(lines)
  IN  strImportOpen
        \o Flatten([k \in 1..Len(sorted) |-> <<Tab>> \o sorted[k] \o <<Newline>>])
        \o strImportClose

RECURSIVE inspectImportDecls(_, _, _)
inspectImportDecls(decls, startPos, endPos) ==
  IF decls = <<>> THEN [startPos |-> startPos, endPos |-> endPos]
  ELSE LET node == Head(decls)
       IN  IF node.Tok = "IMPORT"
           THEN inspectImportDecls(Tail(decls),
                                   IF startPos = 0 THEN node.Pos ELSE startPos,
                                   node.End)
           ELSE inspectImportDecls(Tail(decls), startPos, endPos)

\* findImportStatementRange with endPos set only where startPos is
findImportStatementRange_FirstDeclOnly(file_) ==
  LET p == inspectImportDecls(file_.Decls, 0, 0)
      first == SelectSeq(file_.Decls, LAMBDA node : node.Pos = p.startPos)
      startOffset == Offset(p.startPos)
      endOffset   == Offset(first[1].End)
      length      == endOffset - startOffset + 1
  IN  [Offset |-> startOffset, Length |-> length]

findImportStatementRange(file_) ==
  LET p == inspectImportDecls(file_.Decls, 0, 0)
      startOffset == Offset(p.startPos)
      endOffset   == Offset(p.endPos)
      length      == endOffset - startOffset + 1
  IN  [Offset |-> startOffset, Length |-> length]

findFirstDeclOffset(file_) == Offset(file_.Decls[1].Pos)

\* file.Decls[0] is an index out of range when the file has no declaration
findReplacementRangePanics(file_) ==
  Len(file_.Imports) = 0 /\ Len(file_.Decls) = 0

findReplacementRange(file_) ==
  IF Len(file_.Imports) = 0
  THEN [range |-> [Offset |-> findFirstDeclOffset(file_), Length |-> 0],
        suffix |-> <<Newline>>]
  ELSE [range |-> findImportStatementRange(file_), suffix |-> EmptyString]

\* the orders in which a map with key set S can be iterated
KeyOrders(S) ==
  {s \in [1..Cardinality(S) -> S] : \A a, b \in DOMAIN s : a # b => s[a] # s[b]}

(* ======================= doctor/filesystem.go ========================== *)
(* The storage backends.  The disk is a Go-map-like function from path to  *)
(* content; os calls fail only because a path is missing (storage is       *)
(* reliable otherwise).  A reader is the 1-tuple of the bytes it yields,   *)
(* the nil reader is the empty tuple.  A panic is the outcome "panic".     *)

(* ------------------------------ inputs --------------------------------- *)

\* "x"
pX == <<120>>
\* "y"
pY == <<121>>
\* "d/x"
pDX == <<100, 47, 120>>
\* "/go/x"
pGoX == <<47, 103, 111, 47, 120>>
\* os.Getenv("GOROOT"): "/go"
GOROOT == <<47, 103, 111>>
\* "."
strDot == <<46>>
\* "a", "b", "ab"
cA == <<97>>
cB == <<98>>
cAB == <<97, 98>>

Paths == {pX, pY, pDX}
OpenPaths == Paths \cup {pGoX}
NewNames == {pX, pY, pDX}
Contents == {cA, cB}

LocalFileSystem == "LocalFileSystem"
EditedFileSystem == "EditedFileSystem"
VirtualFileSystem == "VirtualFileSystem"
FileSystem == {LocalFileSystem, EditedFileSystem, VirtualFileSystem}

\* what is on the disk when the backend is constructed
InitDisks == {EmptyMap, (pX :> cAB), (pX :> cAB) @@ (pGoX :> cB)}

\* the edit that replaces the second byte by "bb"
edit1 == [Offset |-> 1, Length |-> 1, Replacement |-> <<98, 98>>]

\* the edits argument of NewEditedFileSystem
InitEdits == {EmptyMap, (pX :> <<edit1>>), (pY :> <<edit1>>)}

fsCreateFile(path, contents) ==
  [type |-> "fsCreateFile", path |-> path, contents |-> contents, newName |-> EmptyString]
fsRemove(path) ==
  [type |-> "fsRemove", path |-> path, contents |-> EmptyString, newName |-> EmptyString]
fsRename(path, newName) ==
  [type |-> "fsRename", path |-> path, contents |-> EmptyString, newName |-> newName]

\* the changes a batch is made of
BatchChanges ==
  {fsCreateFile(pX, cA), fsCreateFile(pY, cB), fsRename(pX, pY), fsRemove(pY), fsRemove(pX)}

(* ------------------------------ results -------------------------------- *)

\* the error value nil
NoError == [msg |-> "nil", arg |-> EmptyString]

\* fmt.Errorf(msg, arg)
Errorf(msg, arg) == [msg |-> msg, arg |-> arg]

\* the error of an os call on a path that does not exist
osNotExist(path) == [msg |-> "no such file or directory", arg |-> path]

NoPanic == ""

Returns(st, data, err) ==
  [disk |-> st.disk, files |-> st.files, data |-> data, err |-> err, panic |-> NoPanic]

Panics(st, message) ==
  [disk |-> st.disk, files |-> st.files, data |-> <<>>, err |-> NoError, panic |-> message]

MapDelete(m, k) == [x \in (DOMAIN m) \ {k} |-> m[x]]

(* ------------------------------ paths ---------------------------------- *)

\* path.Split, filepath.Split: dir ends with the last slash of filePath
pathSplit(filePath) ==
  LET at == {k \in 1..Len(filePath) : filePath[k] = Slash}
      i  == IF at = {} THEN 0 ELSE CHOOSE k \in at : \A j \in at : j <= k
  IN  [dir |-> SubSeq(filePath, 1, i), file |-> SubSeq(filePath, i + 1, Len(filePath))]

isBareFilename(filePath) == pathSplit(filePath).dir = EmptyString

\* path.Dir of a clean path
pathDir(filePath) ==
  LET dir == pathSplit(filePath).dir
  IN  IF dir = EmptyString THEN strDot
      ELSE IF Len(dir) > 1 THEN SubSeq(dir, 1, Len(dir) - 1)
      ELSE dir

\* path.Join of a clean directory and a bare name
pathJoin(dir, name) ==
  IF dir = strDot THEN name
  ELSE IF dir[Len(dir)] = Slash THEN dir \o name
  ELSE dir \o <<Slash>> \o name

(* --------------------------- LocalFileSystem --------------------------- *)

LocalFileSystem_OpenFile(st, path) ==
  IF path \in DOMAIN st.disk
  THEN Returns(st, <<st.disk[path]>>, NoError)
  ELSE Returns(st, <<>>, osNotExist(path))

LocalFileSystem_CreateFile(st, path, contents) ==
  IF path \in DOMAIN st.disk
  THEN Returns(st, <<>>, Errorf("Path already exists: %s", path))
  ELSE Returns([st EXCEPT !.disk = MapPut(@, path, contents)], <<>>, NoError)

\* os.Rename replaces newPath when it exists
LocalFileSystem_Rename(st, oldPath, newName) ==
  IF ~isBareFilename(newName)
  THEN Returns(st, <<>>, Errorf("newName must be a bare filename: %s", newName))
  ELSE LET newPath == pathJoin(pathDir(oldPath), newName)
       IN  IF oldPath \notin DOMAIN st.disk
           THEN Returns(st, <<>>, osNotExist(oldPath))
           ELSE Returns([st EXCEPT !.disk = MapPut(MapDelete(@, oldPath), newPath,
                                                   st.disk[oldPath])],
                        <<>>, NoError)

LocalFileSystem_Remove(st, path) ==
  IF path \notin DOMAIN st.disk
  THEN Returns(st, <<>>, osNotExist(path))
  ELSE Returns([st EXCEPT !.disk = MapDelete(@, path)], <<>>, NoError)

(* --------------------------- EditedFileSystem -------------------------- *)

\* ApplyToReader: the bytes of content with every edit of the edit set
\* applied, the last edit first (the edits are in ascending offset order and
\* lie within the content)
RECURSIVE ApplyToReader(_, _)
ApplyToReader(editSet_, content) ==
  IF editSet_ = <<>> THEN [contents |-> content, err |-> NoError]
  ELSE LET e    == editSet_[Len(editSet_)]
           next == SubSeq(content, 1, e.Offset) \o e.Replacement
                     \o SubSeq(content, e.Offset + e.Length + 1, Len(content))
       IN  ApplyToReader(SubSeq(editSet_, 1, Len(editSet_) - 1), next)

\* EditedFileSystem.OpenFile returning the bytes of the disk although the
\* path has an edit set
EditedFileSystem_OpenFile_NoOverlay(st, edits, path) ==
  LocalFileSystem_OpenFile(st, path)

EditedFileSystem_OpenFile(st, edits, path) ==
  LET local == LocalFileSystem_OpenFile(st, path)
  IN  IF local.err # NoError \/ path \notin DOMAIN edits
      THEN local
      ELSE LET applied == ApplyToReader(edits[path], local.data[1])
           IN  IF applied.err # NoError
               THEN Returns(st, <<>>, applied.err)
               ELSE Returns(st, <<applied.contents>>, NoError)

\* EditedFileSystem.CreateFile returning nil without doing anything
EditedFileSystem_CreateFile_NoOp(st, path, contents) == Returns(st, <<>>, NoError)

EditedFileSystem_CreateFile(st, path, contents) == Panics(st, "CreateFile unsupported")

EditedFileSystem_Rename(st, path, newName) == Panics(st, "Rename unsupported")

EditedFileSystem_Remove(st, path) == Panics(st, "Remove unsupported")

(* --------------------------- VirtualFileSystem ------------------------- *)

isInGoRoot(path) ==
  Len(GOROOT) <= Len(path) /\ SubSeq(path, 1, Len(GOROOT)) = GOROOT

VirtualFileSystem_OpenFile(st, path) ==
  IF isInGoRoot(path)
  THEN IF path \in DOMAIN st.disk
       THEN Returns(st, <<st.disk[path]>>, NoError)
       ELSE Returns(st, <<>>, osNotExist(path))
  ELSE LET fname == pathSplit(path).file
       IN  IF fname \notin DOMAIN st.files
           THEN Returns(st, <<>>, Errorf("Virtual file not found: %s", fname))
           ELSE Returns(st, <<st.files[fname]>>, NoError)

\* VirtualFileSystem.CreateFile overwriting an entry that exists
VirtualFileSystem_CreateFile_Overwrite(st, path, contents) ==
  Returns([st EXCEPT !.files = MapPut(@, path, contents)], <<>>, NoError)

VirtualFileSystem_CreateFile(st, path, contents) ==
  IF path \in DOMAIN st.files
  THEN Returns(st, <<>>, Errorf("File already exists: %s", path))
  ELSE Returns([st EXCEPT !.files = MapPut(@, path, contents)], <<>>, NoError)

VirtualFileSystem_Rename(st, path, newName) ==
  IF path \notin DOMAIN st.files
  THEN Returns(st, <<>>, Errorf("File does not exist: %s", path))
  ELSE IF newName \in DOMAIN st.files
  THEN Returns(st, <<>>, Errorf("File already exists: %s", newName))
  ELSE Returns([st EXCEPT !.files = MapDelete(MapPut(@, newName, st.files[path]), path)],
               <<>>, NoError)

\* VirtualFileSystem.Remove returning nil for a path that has no entry
VirtualFileSystem_Remove_Silent(st, path) ==
  Returns([st EXCEPT !.files = MapDelete(@, path)], <<>>, NoError)

VirtualFileSystem_Remove(st, path) ==
  IF path \notin DOMAIN st.files
  THEN Returns(st, <<>>, Errorf("File does not exist: %s", path))
  ELSE Returns([st EXCEPT !.files = MapDelete(@, path)], <<>>, NoError)

(* ------------------- the FileSystem interface (dispatch) --------------- *)

OpenFile(fs, st, edits, path) ==
  CASE fs = LocalFileSystem   -> LocalFileSystem_OpenFile(st, path)
    [] fs = EditedFileSystem  -> EditedFileSystem_OpenFile(st, edits, path)
    [] fs = VirtualFileSystem -> VirtualFileSystem_OpenFile(st, path)

CreateFile(fs, st, path, contents) ==
  CASE fs = LocalFileSystem   -> LocalFileSystem_CreateFile(st, path, contents)
    [] fs = EditedFileSystem  -> EditedFileSystem_CreateFile(st, path, contents)
    [] fs = VirtualFileSystem -> VirtualFileSystem_CreateFile(st, path, contents)

Rename(fs, st, path, newName) ==
  CASE fs = LocalFileSystem   -> LocalFileSystem_Rename(st, path, newName)
    [] fs = EditedFileSystem  -> EditedFileSystem_Rename(st, path, newName)
    [] fs = VirtualFileSystem -> VirtualFileSystem_Rename(st, path, newName)

Remove(fs, st, path) ==
  CASE fs = LocalFileSystem   -> LocalFileSystem_Remove(st, path)
    [] fs = EditedFileSystem  -> EditedFileSystem_Remove(st, path)
    [] fs = VirtualFileSystem -> VirtualFileSystem_Remove(st, path)

(* ------------------------------ changes -------------------------------- *)

ExecuteUsing(chg, fs, st) ==
  CASE chg.type = "fsCreateFile" -> CreateFile(fs, st, chg.path, chg.contents)
    [] chg.type = "fsRemove"     -> Remove(fs, st, chg.path)
    [] chg.type = "fsRename"     -> Rename(fs, st, chg.path, chg.newName)

StateOf(r) == [disk |-> r.disk, files |-> r.files]

\* Execute going on with the next change after a change has failed, and
\* returning the error of the last change that failed
RECURSIVE Execute_KeepGoing(_, _, _)
Execute_KeepGoing(fs, st, changes) ==
  IF changes = <<>> THEN Returns(st, <<>>, NoError)
  ELSE LET r == ExecuteUsing(Head(changes), fs, st)
       IN  IF r.panic # NoPanic THEN r
           ELSE LET rest == Execute_KeepGoing(fs, StateOf(r), Tail(changes))
                IN  IF rest.panic = NoPanic /\ rest.err = NoError /\ r.err # NoError
                    THEN Returns(StateOf(rest), <<>>, r.err)
                    ELSE rest

RECURSIVE Execute(_, _, _)
Execute(fs, st, changes) ==
  IF changes = <<>> THEN Returns(st, <<>>, NoError)
  ELSE LET r == ExecuteUsing(Head(changes), fs, st)
       IN  IF r.panic # NoPanic \/ r.err # NoError
           THEN r
           ELSE Execute(fs, StateOf(r), Tail(changes))

(* ------------------------ calls on a backend --------------------------- *)

NoCall ==
  [op |-> "", path |-> EmptyString, contents |-> EmptyString, newName |-> EmptyString,
   changes |-> <<>>, data |-> <<>>, err |-> NoError, panic |-> NoPanic]

\* the call op(path, contents, newName, changes) and what it returned
Called(op, path, contents, newName, changes, r) ==
  [op |-> op, path |-> path, contents |-> contents, newName |-> newName,
   changes |-> changes, data |-> r.data, err |-> r.err, panic |-> r.panic]

\* no backend is in use
FSIdle ==
  /\ backend = VirtualFileSystem
  /\ disk = EmptyMap
  /\ files = EmptyMap
  /\ Edits = EmptyMap
  /\ call = NoCall

(* ------------------------------- Run ----------------------------------- *)

filename == "p.go"

Init ==
  /\ \/ file = NilFile
     \/ \E specs \in SeqsUpTo(ImportSpecs, MaxImports),
           hasVarDecl \in BOOLEAN, trailing \in BOOLEAN,
           unres \in SeqsUpTo(UnresolvedNames, MaxUnresolved) :
          \E refs \in SUBSET {DeclaredName(specs[k]) : k \in 1..Len(specs)},
             sels \in SUBSET Range(unres) :
             /\ DistinctNames(specs)
             /\ file = MkFile(specs, hasVarDecl, trailing, refs, unres, sels)
  /\ log = <<>>
  /\ editSet = <<>>
  /\ pc = "Run"
  /\ imports = EmptyMap
  /\ idx = 0
  /\ resolved = EmptyString
  /\ FSIdle

\* Run, lines 44-47: no file is bound
RunNoFile ==
  /\ pc = "Run"
  /\ file = NilFile
  /\ log' = Append(log, LogEntry("FATAL_ERROR", strFileCannotBeNull))
  /\ pc' = "returned"
  /\ UNCHANGED <<file, editSet, imports, idx, resolved>>
  /\ UNCHANGED fsVars

\* Run, lines 49-53: the log holds no initial errors here, so
\* RemoveInitialErrors leaves it as it is
RunFindUsedImports ==
  /\ pc = "Run"
  /\ file # NilFile
  /\ imports' = findUsedImports(file)
  /\ idx' = 1
  /\ pc' = "range"
  /\ UNCHANGED <<file, log, editSet, resolved>>
  /\ UNCHANGED fsVars

\* Run, lines 55-60: one iteration of the loop over file.Unresolved
RunResolve ==
  /\ pc = "range"
  /\ idx <= Len(file.Unresolved)
  /\ LET r == resolve(file, file.Unresolved[idx])
     IN  /\ resolved' = r.resolved
         /\ log' = log \o r.logged
         /\ imports' = IF r.resolved # EmptyString
                       THEN MapPut(imports, r.resolved, EmptyString)
                       ELSE imports
  /\ idx' = idx + 1
  /\ UNCHANGED <<file, editSet, pc>>
  /\ UNCHANGED fsVars

\* Run, line 62: fixImports stages the edit
RunFixImports ==
  /\ pc = "range"
  /\ idx > Len(file.Unresolved)
  /\ ~findReplacementRangePanics(file)
  /\ \E order \in KeyOrders(DOMAIN imports) :
        LET rr == findReplacementRange(file)
            replacement == constructNewImportStatement(imports, order) \o rr.suffix
        IN  editSet' = Append(editSet, [Filename |-> filename,
                                        Range |-> rr.range,
                                        Replacement |-> replacement])
  /\ pc' = "returned"
  /\ UNCHANGED <<file, log, imports, idx, resolved>>
  /\ UNCHANGED fsVars

\* Run, line 62: fixImports panics in findFirstDeclOffset
RunFixImportsPanic ==
  /\ pc = "range"
  /\ idx > Len(file.Unresolved)
  /\ findReplacementRangePanics(file)
  /\ pc' = "panic"
  /\ UNCHANGED <<file, log, editSet, imports, idx, resolved>>
  /\ UNCHANGED fsVars

Next ==
  \/ RunNoFile
  \/ RunFindUsedImports
  \/ RunResolve
  \/ RunFixImports
  \/ RunFixImportsPanic

Spec == Init /\ [][Next]_vars

(* ------------------- the backends as state machines -------------------- *)

State == [disk |-> disk, files |-> files]

\* no file is bound and Run has not been called
RunIdle ==
  /\ file = NilFile
  /\ log = <<>>
  /\ editSet = <<>>
  /\ pc = "Run"
  /\ imports = EmptyMap
  /\ idx = 0
  /\ resolved = EmptyString

\* NewLocalFileSystem, NewEditedFileSystem(edits), NewVirtualFileSystem
InitFS ==
  /\ RunIdle
  /\ backend \in FileSystem
  /\ disk \in InitDisks
  /\ files = EmptyMap
  /\ Edits \in (IF backend = EditedFileSystem THEN InitEdits ELSE {EmptyMap})
  /\ call = NoCall

\* a panic ends the program
Running == call.panic = NoPanic

CallOpenFile ==
  /\ Running
  /\ \E path \in OpenPaths :
       LET r == OpenFile(backend, State, Edits, path)
       IN  /\ call' = Called("OpenFile", path, EmptyString, EmptyString, <<>>, r)
           /\ disk' = r.disk
           /\ files' = r.files
  /\ UNCHANGED <<backend, Edits>>
  /\ UNCHANGED runVars

CallCreateFile ==
  /\ Running
  /\ \E path \in Paths, contents \in Contents :
       LET r == CreateFile(backend, State, path, contents)
       IN  /\ call' = Called("CreateFile", path, contents, EmptyString, <<>>, r)
           /\ disk' = r.disk
           /\ files' = r.files
  /\ UNCHANGED <<backend, Edits>>
  /\ UNCHANGED runVars

CallRename ==
  /\ Running
  /\ \E path \in Paths, newName \in NewNames :
       LET r == Rename(backend, State, path, newName)
       IN  /\ call' = Called("Rename", path, EmptyString, newName, <<>>, r)
           /\ disk' = r.disk
           /\ files' = r.files
  /\ UNCHANGED <<backend, Edits>>
  /\ UNCHANGED runVars

CallRemove ==
  /\ Running
  /\ \E path \in Paths :
       LET r == Remove(backend, State, path)
       IN  /\ call' = Called("Remove", path, EmptyString, EmptyString, <<>>, r)
           /\ disk' = r.disk
           /\ files' = r.files
  /\ UNCHANGED <<backend, Edits>>
  /\ UNCHANGED runVars

NextFS ==
  \/ CallOpenFile
  \/ CallCreateFile
  \/ CallRename
  \/ CallRemove

\* the backends under any sequence of calls
SpecFS == InitFS /\ [][NextFS]_vars

\* Execute(fs, changes) on a backend that has just been constructed
CallExecute ==
  /\ call = NoCall
  /\ \E changes \in SeqsUpTo(BatchChanges, MaxChanges) :
       LET r == Execute(backend, State, changes)
       IN  /\ call' = Called("Execute", EmptyString, EmptyString, EmptyString, changes, r)
           /\ disk' = r.disk
           /\ files' = r.files
  /\ UNCHANGED <<backend, Edits>>
  /\ UNCHANGED runVars

NextExecute == CallExecute

SpecExecute == InitFS /\ [][NextExecute]_vars

(* ------------------------- vocabulary of the properties ---------------- *)

Bound == file # NilFile

\* the referenced-package set of the bound file
ReferencedSet == DOMAIN collectReferencedPackages(file)

\* the part of path after its last slash
FinalSegment(path) ==
  LET at == {k \in 1..Len(path) : path[k] = Slash}
      from == IF at = {} THEN 1 ELSE (CHOOSE k \in at : \A j \in at : j <= k) + 1
  IN  SubSeq(path, from, Len(path))

catalogFinalSegments ==
  [k \in 1..Len(goLibraryPackages) |-> FinalSegment(goLibraryPackages[k])]

\* the catalog entries whose final segment is name, for each unresolved name
catalogMatchesOf ==
  [name \in UnresolvedNames |->
     {goLibraryPackages[k] :
        k \in {j \in 1..Len(goLibraryPackages) : catalogFinalSegments[j] = name}}]

CatalogMatches(name) == catalogMatchesOf[name]

Quoted(path) == <<Quote>> \o path \o <<Quote>>

Unquoted(lit) == SubSeq(lit, 2, Len(lit) - 1)

HasPrefix(s, prefix) == Len(prefix) <= Len(s) /\ SubSeq(s, 1, Len(prefix)) = prefix

HasSuffix(s, suffix) ==
  Len(suffix) <= Len(s) /\ SubSeq(s, Len(s) - Len(suffix) + 1, Len(s)) = suffix

Contains(s, part) ==
  \E k \in 0..(Len(s) - Len(part)) : SubSeq(s, k + 1, k + Len(part)) = part

\* the import declaration decl of the file is in the import set m
KeptIn(m, decl) ==
  /\ decl.Path \in DOMAIN m
  /\ m[decl.Path] = (IF decl.Named THEN decl.Name ELSE EmptyString)

\* the line of an import with the given alias and path
ImportLine(alias, path) ==
  IF alias = EmptyString THEN path ELSE alias \o <<Space>> \o path

\* the lines of an import block, without their indentation
BlockLines(text) ==
  LET pieces == Split(text, Newline)
      body   == SelectSeq(pieces, LAMBDA piece : piece # <<>> /\ piece[1] = Tab)
  IN  [k \in 1..Len(body) |-> Tail(body[k])]

Staged == editSet[1]

\* the identifier the loop of Run is about to resolve
AtIdent == pc = "range" /\ idx <= Len(file.Unresolved)

Current == file.Unresolved[idx]

\* the diagnostic is about the identifier name
IsUnableToResolve(entry, name) == entry.Message = strUnableToResolve \o name

IsMultiplePackages(entry, name) ==
  HasPrefix(entry.Message, strMultiplePackages \o name \o strColonNewline)

(* ------------------------------ properties ----------------------------- *)

\* C1: after findUsedImports, every import declaration of the file is in the
\* import set iff its alias (when it has one) or its path is in the
\* referenced-package set; an unaliased import whose package is referenced
\* under its default name is kept.
C1_KeptIffReferenced ==
  (pc = "range" /\ idx = 1) =>
    \A k \in 1..Len(file.Imports) :
      LET decl == file.Imports[k]
      IN  /\ KeptIn(imports, decl)
               <=> \/ decl.Named /\ decl.Name \in ReferencedSet
                   \/ decl.Path \in ReferencedSet
          /\ (~decl.Named /\ FinalSegment(Unquoted(decl.Path)) \in ReferencedSet)
               => KeptIn(imports, decl)

\* C2: the paths of the staged import set are those findUsedImports kept
\* united with those resolve returned; for imports "fmt" and "os" with only
\* fmt referenced and the single unresolved identifier filepath in qualified
\* position, the staged block is the two lines "fmt" and "path/filepath", in
\* that order, and has no line "os".
C2_PrunedPlusInferred ==
  (Bound /\ editSet # <<>>) =>
    /\ Range(BlockLines(Staged.Replacement))
         = {ImportLine(imports[q], q) : q \in DOMAIN imports}
    /\ DOMAIN imports
         = (DOMAIN findUsedImports(file))
             \cup ({resolve(file, u).resolved : u \in Range(file.Unresolved)} \ {EmptyString})
    /\ ( /\ Range(file.Imports)
              = {[Path |-> qFmt, Named |-> FALSE, Name |-> EmptyString],
                 [Path |-> qOs, Named |-> FALSE, Name |-> EmptyString]}
         /\ ReferencedSet = {fmt}
         /\ file.Unresolved = <<filepath>>
         /\ filepath \in file.Selectors )
       => /\ BlockLines(Staged.Replacement) = <<qFmt, qFilepath>>
          /\ qOs \notin Range(BlockLines(Staged.Replacement))

\* C3: an unresolved identifier that is not itself the left operand of a
\* qualified access gets the diagnostic "Unable to resolve <name>" and no
\* import, whatever other qualified accesses the file has.
C3_NotQualifiedIsReported ==
  [][ (AtIdent /\ Current \notin file.Selectors)
        => /\ log' = Append(log, LogEntry("ERROR", strUnableToResolve \o Current))
           /\ imports' = imports ]_vars

\* C4 as claimed: every unresolved identifier with two or more catalog matches
\* gets no import and exactly one diagnostic, which lists every match.
C4_AmbiguousAnyPosition ==
  [][ (AtIdent /\ Cardinality(CatalogMatches(Current)) >= 2)
        => /\ imports' = imports
           /\ Len(log') = Len(log) + 1
           /\ \A c \in CatalogMatches(Current) : Contains(log'[Len(log')].Message, c) ]_vars

\* C4 (amended): every unresolved identifier in qualified position with two or
\* more catalog matches gets no import and exactly one diagnostic, which lists
\* every match by its full path.
C4_AmbiguousQualified ==
  [][ (AtIdent /\ Current \in file.Selectors /\ Cardinality(CatalogMatches(Current)) >= 2)
        => /\ imports' = imports
           /\ resolved' = EmptyString
           /\ Len(log') = Len(log) + 1
           /\ \A c \in CatalogMatches(Current) :
                Contains(log'[Len(log')].Message, strIndent \o c \o <<Newline>>) ]_vars

C4_Witness ==
  /\ pc = "range" /\ idx > 1
  /\ file.Unresolved[idx - 1] = rand
  /\ rand \in file.Selectors
  /\ Cardinality(CatalogMatches(rand)) = 2
  /\ log # <<>> /\ IsMultiplePackages(log[Len(log)], rand)

\* C5: an unresolved identifier in qualified position with exactly one catalog
\* match has that entry's path in the import set with an empty alias once it
\* has been resolved, the path is a line of the staged block, and no
\* diagnostic is about that identifier.
C5_UniqueMatchInferred ==
  Bound =>
    \A k \in 1..Len(file.Unresolved) :
      LET u == file.Unresolved[k]
      IN  (u \in file.Selectors /\ Cardinality(CatalogMatches(u)) = 1) =>
            \A c \in CatalogMatches(u) :
              /\ \A j \in 1..Len(log) :
                   ~IsUnableToResolve(log[j], u) /\ ~IsMultiplePackages(log[j], u)
              /\ (pc = "range" /\ k < idx) =>
                   Quoted(c) \in DOMAIN imports /\ imports[Quoted(c)] = EmptyString
              /\ editSet # <<>> =>
                   ImportLine(EmptyString, Quoted(c)) \in Range(BlockLines(Staged.Replacement))

C5_Witness ==
  /\ pc = "returned" /\ Bound /\ editSet # <<>>
  /\ filepath \in Range(file.Unresolved) \cap file.Selectors
  /\ qFilepath \in Range(BlockLines(Staged.Replacement))
  /\ log = <<>>

\* C6: an unresolved identifier in qualified position with no catalog match
\* gets no import, and the resolver logs no "multiple packages" diagnostic for it.
C6_ZeroMatchSilent ==
  [][ (AtIdent /\ Current \in file.Selectors /\ CatalogMatches(Current) = {})
        => /\ imports' = imports
           /\ \A k \in (Len(log) + 1)..Len(log') :
                ~HasPrefix(log'[k].Message, strMultiplePackages) ]_vars

IsFatal(entry) == entry.Severity = "FATAL_ERROR"

\* C7: Run aborts iff no file is bound: with no file it logs a fatal error and
\* stages no edit; with a bound file it never panics, logs no fatal error and
\* has staged exactly one edit when it returns.
C7_AbortsIffNoFile ==
  /\ (~Bound /\ pc # "Run") =>
        /\ pc = "returned"
        /\ \E k \in 1..Len(log) : IsFatal(log[k])
        /\ editSet = <<>>
  /\ Bound =>
        /\ pc # "panic"
        /\ \A k \in 1..Len(log) : ~IsFatal(log[k])
        /\ Len(editSet) <= 1
        /\ pc = "returned" => Len(editSet) = 1

\* a sorts before b, byte by byte
Before(a, b) ==
  \/ Len(a) < Len(b) /\ SubSeq(b, 1, Len(a)) = a
  \/ \E k \in 1..Len(a) :
       /\ k <= Len(b)
       /\ SubSeq(a, 1, k - 1) = SubSeq(b, 1, k - 1)
       /\ a[k] < b[k]

\* the separator that follows the block when the file had no import
StagedSuffix == IF Len(file.Imports) = 0 THEN <<Newline>> ELSE EmptyString

C9_RangeWithinBuffer ==
  (Bound /\ editSet # <<>>) =>
    /\ Staged.Range.Offset >= 0
    /\ Staged.Range.Length >= 0
    /\ Staged.Range.Offset + Staged.Range.Length <= file.Size
    /\ Staged.Range.Length = 0 <=> Len(file.Imports) = 0

\* the import declarations among the declarations of the file
ImportDeclIndexes == {k \in 1..Len(file.Decls) : file.Decls[k].Tok = "IMPORT"}

FirstImportStart ==
  file.Decls[CHOOSE k \in ImportDeclIndexes : \A j \in ImportDeclIndexes : k <= j].Pos - FileBase

LastImportEnd ==
  file.Decls[CHOOSE k \in ImportDeclIndexes : \A j \in ImportDeclIndexes : j <= k].End - FileBase

\* C10: with imports, the staged range starts at the first import
\* declaration and has length (end of the last import declaration - start + 1),
\* and the replacement has no suffix; without imports it is (offset of the
\* first declaration, 0) and the replacement ends with one more newline.
C10_ReplacementRange ==
  (Bound /\ editSet # <<>>) =>
    IF Len(file.Imports) >= 1
    THEN /\ Staged.Range.Offset = FirstImportStart
         /\ Staged.Range.Length = LastImportEnd - FirstImportStart + 1
         /\ HasSuffix(Staged.Replacement, <<Newline>> \o strImportClose)
         /\ ~HasSuffix(Staged.Replacement, <<Newline, Newline>>)
    ELSE /\ Staged.Range.Offset = file.Decls[1].Pos - FileBase
         /\ Staged.Range.Length = 0
         /\ HasSuffix(Staged.Replacement, <<Newline>> \o strImportClose \o <<Newline>>)
         /\ ~HasSuffix(Staged.Replacement, <<Newline, Newline, Newline>>)

C10_Witness ==
  /\ Bound /\ editSet # <<>>
  /\ Cardinality(ImportDeclIndexes) >= 2
  /\ Staged.Range.Offset = Len(srcPackageClause)
  /\ Staged.Range.Offset + Staged.Range.Length > file.Decls[2].Pos - FileBase

\* the module path of a line of the import block: its last token, without
\* the delimiters of the string literal
LinePath(line) ==
  LET tokens == Split(line, Space)
  IN  Unquoted(tokens[Len(tokens)])

C20_KeptImportsPreserved ==
  (Bound /\ pc \in {"range", "returned"}) =>
    LET kept == findUsedImports(file)
    IN  \A q \in DOMAIN kept :
          /\ q \in DOMAIN imports /\ imports[q] = kept[q]
          /\ editSet # <<>> =>
                ImportLine(kept[q], q) \in Range(BlockLines(Staged.Replacement))

Failed(r) == r.err # NoError \/ r.panic # NoPanic

\* the state of the backend once the first n changes have been applied to st
RECURSIVE StateAfter(_, _, _, _)
StateAfter(fs, st, changes, n) ==
  IF n = 0 THEN st
  ELSE StateOf(ExecuteUsing(changes[n], fs, StateAfter(fs, st, changes, n - 1)))

\* what change n does when the changes before it have been applied
OutcomeOf(fs, st, changes, n) ==
  ExecuteUsing(changes[n], fs, StateAfter(fs, st, changes, n - 1))

\* the first change to fail (a set with at most one element)
FirstToFail(fs, st, changes) ==
  {k \in 1..Len(changes) :
     /\ Failed(OutcomeOf(fs, st, changes, k))
     /\ \A n \in 1..(k - 1) : ~Failed(OutcomeOf(fs, st, changes, n))}

IsExecute == call'.op = "Execute"

VirtualCall(op) == backend = VirtualFileSystem /\ call'.op = op

Errs == call'.err # NoError /\ call'.panic = NoPanic

\* C12: on the virtual backend, create(p, c) returns an error when the table
\* has an entry p; remove(p) and rename(p, n) return an error when it has no
\* entry p; rename(p, n) returns an error when it has an entry n, also when
\* n = p; every call that returns an error leaves the table unchanged.
C12_VirtualPreconditions ==
  [][ /\ (VirtualCall("CreateFile") /\ call'.path \in DOMAIN files) => Errs
      /\ (VirtualCall("Remove") /\ call'.path \notin DOMAIN files) => Errs
      /\ (VirtualCall("Rename") /\ call'.path \notin DOMAIN files) => Errs
      /\ (VirtualCall("Rename") /\ call'.newName \in DOMAIN files) => Errs
      /\ (backend = VirtualFileSystem /\ Errs) => files' = files ]_vars

C12_Witness ==
  /\ backend = VirtualFileSystem
  /\ call.op = "Rename"
  /\ call.newName = call.path
  /\ call.path \in DOMAIN files
  /\ call.err = Errorf("File already exists: %s", call.path)

\* openForRead(path) on the virtual backend once the step is done
ReadAfter(path) ==
  VirtualFileSystem_OpenFile([disk |-> disk', files |-> files'], path)

\* C13: after a successful rename(a, b) on the virtual backend,
\* openForRead(b) returns exactly the content a had, openForRead(a) fails,
\* and every other entry of the table is unchanged.
C13_RenamePreservesContent ==
  [][ (VirtualCall("Rename") /\ call'.err = NoError) =>
        LET a == call'.path
            b == call'.newName
        IN  /\ ReadAfter(b).err = NoError /\ ReadAfter(b).data = <<files[a]>>
            /\ ReadAfter(a).err # NoError
            /\ \A p \in (DOMAIN files) \ {a} : p \in DOMAIN files' /\ files'[p] = files[p]
            /\ DOMAIN files' \subseteq (DOMAIN files) \cup {b} ]_vars

\* create(x), rename(x, y), remove(y)
Lifecycle == <<fsCreateFile(pX, cA), fsRename(pX, pY), fsRemove(pY)>>

\* the change puts an entry p into the table
Introduces(chg, p) ==
  \/ chg.type = "fsCreateFile" /\ chg.path = p
  \/ chg.type = "fsRename" /\ chg.newName = p

\* C14: on the virtual backend, starting from the empty table, create(x),
\* rename(x, y), remove(y) all succeed and leave the table empty, and one more
\* remove(y) fails.  After a successful remove(p) the table has no entry p
\* unless a later create or rename puts one there, and a second remove(p)
\* with no such create or rename in between fails.
C14_VirtualLifecycle ==
  (backend = VirtualFileSystem /\ call.op = "Execute") =>
    LET changes == call.changes
    IN  /\ changes = Lifecycle => (call.err = NoError /\ files = EmptyMap)
        /\ changes = Lifecycle \o <<fsRemove(pY)>> =>
              (call.err = Errorf("File does not exist: %s", pY) /\ files = EmptyMap)
        /\ \A i \in 1..Len(changes) :
              changes[i].type = "fsRemove" =>
                LET p == changes[i].path
                IN  /\ ( /\ call.err = NoError
                          /\ \A m \in (i + 1)..Len(changes) : ~Introduces(changes[m], p) )
                        => p \notin DOMAIN files
                    /\ \A j \in (i + 1)..Len(changes) :
                          ( /\ changes[j] = changes[i]
                            /\ \A m \in (i + 1)..(j - 1) : ~Introduces(changes[m], p) )
                          => call.err # NoError

C14_Witness ==
  /\ backend = VirtualFileSystem
  /\ call.op = "Execute"
  /\ call.changes = Lifecycle \o <<fsRemove(pY)>>
  /\ call.err = Errorf("File does not exist: %s", pY)
  /\ files = EmptyMap

HasSeparator(name) == \E k \in 1..Len(name) : name[k] = Slash

\* C15: on the real and on the virtual backend, rename(p, n) returns an error
\* and changes nothing when n has a directory separator.
C15_BareNameRule ==
  [][ ( /\ backend \in {LocalFileSystem, VirtualFileSystem}
        /\ call'.op = "Rename"
        /\ HasSeparator(call'.newName) )
        => (Errs /\ disk' = disk /\ files' = files) ]_vars

\* C16: on the overlay backend every create, rename and remove fails at once
\* (it panics: it neither returns nil nor returns without effect) and leaves
\* the edit mapping and the disk as they were, so a batch of changes executed
\* on the overlay backend applies no change at all.
C16_OverlayRejectsMutation ==
  [][ (backend = EditedFileSystem /\ IsExecute) =>
        /\ \A n \in 1..Len(call'.changes) :
              LET r == ExecuteUsing(call'.changes[n], backend, State)
              IN  r.panic # NoPanic /\ StateOf(r) = State
        /\ call'.changes # <<>> => call'.panic # NoPanic
        /\ disk' = disk /\ files' = files /\ Edits' = Edits ]_vars

C16_Witness ==
  /\ backend = EditedFileSystem
  /\ call.op = "Execute"
  /\ Len(call.changes) >= 2
  /\ call.changes[1].type = "fsCreateFile"
  /\ call.panic = "CreateFile unsupported"
  /\ disk = (pX :> cAB)
  /\ Edits = (pX :> <<edit1>>)

\* C17: on the overlay backend, openForRead(p) fails when the disk has no
\* file p, returns the bytes of the disk with the edit set of p applied when
\* the mapping has an entry for p, and the bytes of the disk as they are when
\* it has none; the disk and the mapping are the same after the read.
C17_OverlayRead ==
  [][ (backend = EditedFileSystem /\ call'.op = "OpenFile") =>
        LET p == call'.path
        IN  /\ p \notin DOMAIN disk => (Errs /\ call'.data = <<>>)
            /\ (p \in DOMAIN disk /\ p \in DOMAIN Edits) =>
                  /\ call'.err = NoError
                  /\ call'.data = <<ApplyToReader(Edits[p], disk[p]).contents>>
            /\ (p \in DOMAIN disk /\ p \notin DOMAIN Edits) =>
                  /\ call'.err = NoError
                  /\ call'.data = <<disk[p]>>
            /\ disk' = disk /\ Edits' = Edits ]_vars

C17_Witness ==
  /\ backend = EditedFileSystem
  /\ call.op = "OpenFile"
  /\ call.path = pX
  /\ Edits = (pX :> <<edit1>>)
  /\ disk = (pX :> cAB)
  /\ call.data = << <<97, 98, 98>> >>

\* C19: on the virtual backend, for every path p outside GOROOT, with or
\* without a directory component, openForRead(p) succeeds iff the table has
\* an entry under exactly p, and then returns the content of that entry.
C19_ReadWriteKeyConsistency ==
  [][ (VirtualCall("OpenFile") /\ ~isInGoRoot(call'.path)) =>
        LET p == call'.path
        IN  /\ call'.err = NoError <=> p \in DOMAIN files
            /\ call'.err = NoError => call'.data = <<files[p]>> ]_vars

====
